---- MODULE Spec2Model ----
\* Byte-level parser primitives of nom (src/bytes.rs) and the IResult
\* algebra with its accessors (src/internal.rs), as a state machine.
\* Spec: a caller holds an input, invokes one primitive on it and inspects the
\* result it got back.  SpecStream: a caller bound to one parser re-invokes it
\* on a buffer that grows by appending.
EXTENDS Integers, Sequences, FiniteSets

\* ------------------------------------------------------------------ bounds
MaxLen    == 4   \* longest caller buffer
MaxArgLen == 2   \* longest literal / delimiter / byte-set argument
MaxCount  == 5   \* largest count given to take!
Bytes     == {0, 1, 2}

RECURSIVE SeqsUpTo(_)
SeqsUpTo(n) ==
  IF n = 0 THEN {<<>>}
  ELSE LET shorter == SeqsUpTo(n - 1)
       IN  shorter \cup {Append(s, b) : s \in {t \in shorter : Len(t) = n - 1}, b \in Bytes}

Inputs     == SeqsUpTo(MaxLen)
Args       == SeqsUpTo(MaxArgLen)
Counts     == 0..MaxCount
Predicates == SUBSET Bytes

\* ------------------------------------------------- slices (0-based, [a..b))
Slice(s, a, b) == SubSeq(s, a + 1, b)
At(s, idx)     == s[idx + 1]
Range(s)       == {s[j] : j \in 1..Len(s)}

\* ------------------------------------------------ internal.rs: result types
Position(kind, pos) == [err |-> "Position", kind |-> kind, pos |-> pos]
Size(n)             == [needed |-> "Size", size |-> n]
Done(i, o)          == [tag |-> "Done", i |-> i, o |-> o]
Error(e)            == [tag |-> "Error", e |-> e]
Incomplete(n)       == [tag |-> "Incomplete", n |-> n]
None                == [opt |-> "None"]
Some(x)             == [opt |-> "Some", val |-> x]

is_done(self)       == IF self.tag = "Done" THEN TRUE ELSE FALSE
\* variant of is_err that matches everything but Done
is_err_not_done(self) == IF self.tag # "Done" THEN TRUE ELSE FALSE
is_err(self)        == IF self.tag = "Error" THEN TRUE ELSE FALSE
is_incomplete(self) == IF self.tag = "Incomplete" THEN TRUE ELSE FALSE

remaining_input(self) == IF self.tag = "Done" THEN Some(self.i) ELSE None
output(self)          == IF self.tag = "Done" THEN Some(self.o) ELSE None

\* ---------------------------------------------------- bytes.rs: primitives
\* `for &i in bytes.iter() { if b == i { ...; break } }`
RECURSIVE bytes_iter_find(_, _, _)
bytes_iter_find(bytes, b, j) ==
  IF j > Len(bytes) THEN FALSE
  ELSE IF b = bytes[j] THEN TRUE
  ELSE bytes_iter_find(bytes, b, j + 1)

\* variant of tag! that asks for more when the input is exactly as long as the literal
tag_strict_length(i, inp) ==
  LET bytes == inp
  IN  IF Len(bytes) >= Len(i) THEN Incomplete(Size(Len(bytes)))
      ELSE IF Slice(i, 0, Len(bytes)) = bytes
           THEN Done(Slice(i, Len(bytes), Len(i)), Slice(i, 0, Len(bytes)))
           ELSE Error(Position("Tag", i))

tag(i, inp) ==
  LET bytes == inp
  IN  IF Len(bytes) > Len(i) THEN Incomplete(Size(Len(bytes)))
      ELSE IF Slice(i, 0, Len(bytes)) = bytes
           THEN Done(Slice(i, Len(bytes), Len(i)), Slice(i, 0, Len(bytes)))
           ELSE Error(Position("Tag", i))

\* the scan loop of is_not!: the value of `index` when the loop is left
RECURSIVE is_not_loop(_, _, _, _)
is_not_loop(input, bytes, idx, index) ==
  IF idx >= Len(input) THEN index
  ELSE IF bytes_iter_find(bytes, At(input, idx), 1) THEN idx
  ELSE is_not_loop(input, bytes, idx + 1, idx)

is_not(input, arr) ==
  LET index == is_not_loop(input, arr, 0, 0)
  IN  IF index = 0 THEN Error(Position("IsNot", input))
      ELSE Done(Slice(input, index, Len(input)), Slice(input, 0, index))

\* variant of the is_a! loop that leaves it before `index = idx`
RECURSIVE is_a_loop_stale_index(_, _, _, _)
is_a_loop_stale_index(input, bytes, idx, index) ==
  IF idx >= Len(input) THEN index
  ELSE IF ~bytes_iter_find(bytes, At(input, idx), 1) THEN index
  ELSE is_a_loop_stale_index(input, bytes, idx + 1, idx)

\* the scan loop of is_a!: the value of `index` when the loop is left
RECURSIVE is_a_loop(_, _, _, _)
is_a_loop(input, bytes, idx, index) ==
  IF idx >= Len(input) THEN index
  ELSE IF ~bytes_iter_find(bytes, At(input, idx), 1) THEN idx
  ELSE is_a_loop(input, bytes, idx + 1, idx)

is_a(input, arr) ==
  LET index == is_a_loop(input, arr, 0, 0)
  IN  IF index = 0 THEN Error(Position("IsA", input))
      ELSE Done(Slice(input, index, Len(input)), Slice(input, 0, index))

\* the scan loop of filter!: `index` and `found` when the loop is left;
\* the predicate is the set of bytes it accepts
RECURSIVE filter_loop(_, _, _, _)
filter_loop(input, f, idx, index) ==
  IF idx >= Len(input) THEN [index |-> index, found |-> FALSE]
  ELSE IF ~(At(input, idx) \in f) THEN [index |-> idx, found |-> TRUE]
  ELSE filter_loop(input, f, idx + 1, idx)

filter(input, f) ==
  LET l == filter_loop(input, f, 0, 0)
  IN  IF l.index = 0 THEN Error(Position("Filter", input))
      ELSE IF l.found THEN Done(Slice(input, l.index, Len(input)), Slice(input, 0, l.index))
      ELSE Done(<<>>, input)

\* variant of take! that takes an exactly long enough input for too short
take_off_by_one(i, count) ==
  LET cnt == count
  IN  IF Len(i) <= cnt THEN Incomplete(Size(cnt))
      ELSE Done(Slice(i, cnt, Len(i)), Slice(i, 0, cnt))

\* variant of take! that reports the bytes still missing, not the total
take_needs_missing(i, count) ==
  LET cnt == count
  IN  IF Len(i) < cnt THEN Incomplete(Size(cnt - Len(i)))
      ELSE Done(Slice(i, cnt, Len(i)), Slice(i, 0, cnt))

take(i, count) ==
  LET cnt == count
  IN  IF Len(i) < cnt THEN Incomplete(Size(cnt))
      ELSE Done(Slice(i, cnt, Len(i)), Slice(i, 0, cnt))

\* variant of the take_until! loop that gives up one offset early
RECURSIVE take_until_loop_stops_early(_, _, _)
take_until_loop_stops_early(i, bytes, idx) ==
  IF idx >= Len(i) THEN [index |-> 0, parsed |-> FALSE]
  ELSE IF idx + Len(bytes) >= Len(i) THEN [index |-> idx, parsed |-> FALSE]
  ELSE IF Slice(i, idx, idx + Len(bytes)) = bytes THEN [index |-> idx, parsed |-> TRUE]
  ELSE take_until_loop_stops_early(i, bytes, idx + 1)

\* the scan loop shared by take_until! and take_until_and_consume!
RECURSIVE take_until_loop(_, _, _)
take_until_loop(i, bytes, idx) ==
  IF idx >= Len(i) THEN [index |-> 0, parsed |-> FALSE]
  ELSE IF idx + Len(bytes) > Len(i) THEN [index |-> idx, parsed |-> FALSE]
  ELSE IF Slice(i, idx, idx + Len(bytes)) = bytes THEN [index |-> idx, parsed |-> TRUE]
  ELSE take_until_loop(i, bytes, idx + 1)

\* variant of take_until_and_consume! that skips one byte, not the delimiter
take_until_and_consume_skips_one(i, inp) ==
  LET bytes == inp
  IN  IF Len(bytes) > Len(i) THEN Incomplete(Size(Len(bytes)))
      ELSE LET l == take_until_loop(i, bytes, 0)
           IN  IF l.parsed
               THEN Done(Slice(i, l.index + 1, Len(i)), Slice(i, 0, l.index))
               ELSE Error(Position("TakeUntilAndConsume", i))

take_until_and_consume(i, inp) ==
  LET bytes == inp
  IN  IF Len(bytes) > Len(i) THEN Incomplete(Size(Len(bytes)))
      ELSE LET l == take_until_loop(i, bytes, 0)
           IN  IF l.parsed
               THEN Done(Slice(i, l.index + Len(bytes), Len(i)), Slice(i, 0, l.index))
               ELSE Error(Position("TakeUntilAndConsume", i))

take_until(i, inp) ==
  LET bytes == inp
  IN  IF Len(bytes) > Len(i) THEN Incomplete(Size(Len(bytes)))
      ELSE LET l == take_until_loop(i, bytes, 0)
           IN  IF l.parsed
               THEN Done(Slice(i, l.index, Len(i)), Slice(i, 0, l.index))
               ELSE Error(Position("TakeUntil", i))

\* the scan loop shared by take_until_either! and its consuming variant
RECURSIVE take_until_either_loop(_, _, _)
take_until_either_loop(i, bytes, idx) ==
  IF idx >= Len(i) THEN [index |-> 0, parsed |-> FALSE]
  ELSE IF idx + 1 > Len(i) THEN [index |-> idx, parsed |-> FALSE]
  ELSE IF bytes_iter_find(bytes, At(i, idx), 1) THEN [index |-> idx, parsed |-> TRUE]
  ELSE take_until_either_loop(i, bytes, idx + 1)

\* variant of take_until_either_and_consume! that leaves the matched byte
take_until_either_and_consume_keeps_byte(i, inp) ==
  LET bytes == inp
  IN  IF 1 > Len(i) THEN Incomplete(Size(1))
      ELSE LET l == take_until_either_loop(i, bytes, 0)
           IN  IF l.parsed
               THEN Done(Slice(i, l.index, Len(i)), Slice(i, 0, l.index))
               ELSE Error(Position("TakeUntilEitherAndConsume", i))

take_until_either_and_consume(i, inp) ==
  LET bytes == inp
  IN  IF 1 > Len(i) THEN Incomplete(Size(1))
      ELSE LET l == take_until_either_loop(i, bytes, 0)
           IN  IF l.parsed
               THEN Done(Slice(i, l.index + 1, Len(i)), Slice(i, 0, l.index))
               ELSE Error(Position("TakeUntilEitherAndConsume", i))

take_until_either(i, inp) ==
  LET bytes == inp
  IN  IF 1 > Len(i) THEN Incomplete(Size(1))
      ELSE LET l == take_until_either_loop(i, bytes, 0)
           IN  IF l.parsed
               THEN Done(Slice(i, l.index, Len(i)), Slice(i, 0, l.index))
               ELSE Error(Position("TakeUntilEither", i))

\* ------------------------------------------------------------------- state
VARIABLES
  buf,   \* the caller's buffer
  op,    \* the primitive the caller invokes ("none" before the call)
  arg,   \* its argument: literal, byte set, predicate or count
  input, \* the input slice of the last invocation (the buffer at that time)
  res,   \* the IResult it returned
  obs,   \* the last accessor applied to res and what it returned
  prev   \* streaming caller: the answer it had before it re-invoked

vars == <<buf, op, arg, input, res, obs, prev>>

NoObs    == [fn |-> "none"]
NoResult == [tag |-> "None"]

Init ==
  /\ buf \in Inputs
  /\ op = "none"
  /\ arg = <<>>
  /\ input = <<>>
  /\ res = NoResult
  /\ obs = NoObs
  /\ prev = NoResult

\* One macro expansion evaluated on the caller's input.  Every invocation
\* builds a fresh IResult from ($i, argument) alone, so a behaviour of Spec
\* follows one result: the call, then the accessors applied to what it returned.
Invoke(name, a, r) ==
  /\ op = "none"
  /\ op' = name
  /\ arg' = a
  /\ input' = buf
  /\ res' = r
  /\ obs' = NoObs
  /\ UNCHANGED <<buf, prev>>

Tag      == \E a \in Args : Invoke("tag", a, tag(buf, a))
IsNot    == \E a \in Args : Invoke("is_not", a, is_not(buf, a))
IsA      == \E a \in Args : Invoke("is_a", a, is_a(buf, a))
Filter   == \E f \in Predicates : Invoke("filter", f, filter(buf, f))
Take     == \E n \in Counts : Invoke("take", n, take(buf, n))
TakeUntilAndConsume ==
  \E a \in Args : Invoke("take_until_and_consume", a, take_until_and_consume(buf, a))
TakeUntil ==
  \E a \in Args : Invoke("take_until", a, take_until(buf, a))
TakeUntilEitherAndConsume ==
  \E a \in Args :
     Invoke("take_until_either_and_consume", a, take_until_either_and_consume(buf, a))
TakeUntilEither ==
  \E a \in Args : Invoke("take_until_either", a, take_until_either(buf, a))

Observe(fn, v) ==
  /\ op # "none"
  /\ obs' = [fn |-> fn, val |-> v]
  /\ UNCHANGED <<buf, op, arg, input, res, prev>>

IsDone         == Observe("is_done", is_done(res))
IsErr          == Observe("is_err", is_err(res))
IsIncomplete   == Observe("is_incomplete", is_incomplete(res))
RemainingInput == Observe("remaining_input", remaining_input(res))
Output         == Observe("output", output(res))

Next ==
  \/ Tag
  \/ IsNot
  \/ IsA
  \/ Filter
  \/ Take
  \/ TakeUntilAndConsume
  \/ TakeUntil
  \/ TakeUntilEitherAndConsume
  \/ TakeUntilEither
  \/ IsDone
  \/ IsErr
  \/ IsIncomplete
  \/ RemainingInput
  \/ Output

Spec == Init /\ [][Next]_vars

\* ------------------------------------------------- the streaming caller
\* A caller bound to one tag! or take! parser: the buffer starts empty, grows
\* only by appending, and the parser is re-invoked from the start of it.
InitStream ==
  /\ buf = <<>>
  /\ \/ op = "tag" /\ arg \in Args
     \/ op = "take" /\ arg \in Counts
  /\ input = <<>>
  /\ res = NoResult
  /\ obs = NoObs
  /\ prev = NoResult

AppendBytes ==
  /\ Len(buf) < MaxLen
  /\ \E b \in Bytes : buf' = Append(buf, b)
  /\ UNCHANGED <<op, arg, input, res, obs, prev>>

Reinvoke(r) ==
  /\ input' = buf
  /\ res' = r
  /\ prev' = res
  /\ UNCHANGED <<buf, op, arg, obs>>

RetryTag  == op = "tag" /\ Reinvoke(tag(buf, arg))
RetryTake == op = "take" /\ Reinvoke(take(buf, arg))

NextStream ==
  \/ AppendBytes
  \/ RetryTag
  \/ RetryTake

SpecStream == InitStream /\ [][NextStream]_vars

\* ------------------------------------------------------------- properties
Min(S) == CHOOSE k \in S : \A j \in S : k <= j

\* what the primitive `name` returns for argument a on input i
Apply(name, a, i) ==
  CASE name = "tag"    -> tag(i, a)
    [] name = "is_not" -> is_not(i, a)
    [] name = "is_a"   -> is_a(i, a)
    [] name = "filter" -> filter(i, a)
    [] name = "take"   -> take(i, a)
    [] name = "take_until_and_consume" -> take_until_and_consume(i, a)
    [] name = "take_until" -> take_until(i, a)
    [] name = "take_until_either_and_consume" -> take_until_either_and_consume(i, a)
    [] name = "take_until_either" -> take_until_either(i, a)

\* the bytes the scan of `name` accepts, as a set
Accepted(name, a) ==
  CASE name = "is_a"   -> Range(a)
    [] name = "is_not" -> Bytes \ Range(a)
    [] name = "filter" -> a

ScanKind(name) ==
  CASE name = "is_a" -> "IsA" [] name = "is_not" -> "IsNot" [] name = "filter" -> "Filter"

\* 0-based indices of the stopping bytes of a scan
Stops(name, a, i) == {k \in 0..(Len(i) - 1) : At(i, k) \notin Accepted(name, a)}

\* C1: is_not(S) on a non-empty input with no byte in S, and is_a(S) on a
\* non-empty input with every byte in S, return Done with an empty remainder
\* and the whole input as output (also for an input of length 1).
C1_WholeBufferScan ==
  (op \in {"is_not", "is_a"} /\ input # <<>> /\ Stops(op, arg, input) = {})
    => res = Done(<<>>, input)

\* C2: filter(P) on a non-empty input all of whose bytes satisfy P returns
\* Done with an empty remainder and the whole input, for any length from 1 up.
C2_WholeBufferFilter ==
  (op = "filter" /\ input # <<>> /\ Stops(op, arg, input) = {})
    => res = Done(<<>>, input)

\* offsets at which the literal D occurs in I
Occurrences(I, D) ==
  {k \in 0..(Len(I) - Len(D)) : \A j \in 1..Len(D) : I[k + j] = D[j]}

take_until_reference(I, D, consume, kind) ==
  IF Len(I) < Len(D) THEN Incomplete(Size(Len(D)))
  ELSE IF Occurrences(I, D) # {}
       THEN LET k == Min(Occurrences(I, D))
            IN  Done(Slice(I, IF consume THEN k + Len(D) ELSE k, Len(I)), Slice(I, 0, k))
       ELSE Error(Position(kind, I))

\* C3: for a delimiter of length >= 1, take_until and take_until_and_consume
\* agree with the reference: Incomplete(Size(len D)) on a shorter input, the
\* split at the first occurrence of D otherwise, or Error at the whole input.
C3_TakeUntilReference ==
  /\ (op = "take_until" /\ Len(arg) >= 1)
       => res = take_until_reference(input, arg, FALSE, "TakeUntil")
  /\ (op = "take_until_and_consume" /\ Len(arg) >= 1)
       => res = take_until_reference(input, arg, TRUE, "TakeUntilAndConsume")

\* a match that is not at offset 0 and ends exactly at the end of the input
C3_Witness ==
  /\ op = "take_until_and_consume"
  /\ Len(arg) = 2
  /\ res.tag = "Done"
  /\ Len(res.o) >= 1
  /\ res.i = <<>>

tag_reference(I, L) ==
  IF Len(I) < Len(L) THEN Incomplete(Size(Len(L)))
  ELSE IF \A j \in 1..Len(L) : I[j] = L[j]
       THEN Done(SubSeq(I, Len(L) + 1, Len(I)), L)
       ELSE Error(Position("Tag", I))

\* C4: tag(L)(I) is Incomplete(Size(len L)) when I is shorter than L,
\* Done(I[len L..], L) when I starts with L, and otherwise Error(Position(Tag,
\* I)) at the whole input; an output is never shorter than L.
C4_TagReference ==
  op = "tag" =>
    /\ res = tag_reference(input, arg)
    /\ res.tag = "Done" => Len(res.o) = Len(arg)

\* a mismatch after a matching first byte, reported at the whole input
C4_Witness ==
  /\ op = "tag"
  /\ Len(arg) = 2
  /\ Len(input) >= 2
  /\ input[1] = arg[1]
  /\ res = Error(Position("Tag", input))

\* C5: a scan (is_a, is_not, filter) of an input whose first stopping byte is
\* at index k returns Error at the whole input when k = 0 and
\* Done(I[k..], I[0..k]) when k >= 1; membership in S is by set.
C5_ScanStopsAtFirst ==
  (op \in {"is_a", "is_not", "filter"} /\ Stops(op, arg, input) # {}) =>
    LET k == Min(Stops(op, arg, input))
    IN  res = IF k = 0 THEN Error(Position(ScanKind(op), input))
              ELSE Done(Slice(input, k, Len(input)), Slice(input, 0, k))

\* is_a with a set given out of order, matching two bytes before it stops
C5_Witness ==
  /\ op = "is_a"
  /\ Len(arg) = 2
  /\ arg[1] > arg[2]
  /\ res.tag = "Done"
  /\ res.o = <<arg[2], arg[1]>>
  /\ Len(res.i) >= 1

Hits(I, S) == {k \in 0..(Len(I) - 1) : At(I, k) \in Range(S)}

take_until_either_reference(I, S, consume, kind) ==
  IF I = <<>> THEN Incomplete(Size(1))
  ELSE IF Hits(I, S) # {}
       THEN LET k == Min(Hits(I, S))
            IN  Done(Slice(I, IF consume THEN k + 1 ELSE k, Len(I)), Slice(I, 0, k))
       ELSE Error(Position(kind, I))

\* C6: take_until_either and take_until_either_and_consume agree with the
\* reference: Incomplete(Size(1)) on the empty input, the split at the first
\* byte that is in S (one byte skipped by the consuming variant), or Error at
\* the whole input when no byte is in S.
C6_TakeUntilEitherReference ==
  /\ op = "take_until_either"
       => res = take_until_either_reference(input, arg, FALSE, "TakeUntilEither")
  /\ op = "take_until_either_and_consume"
       => res = take_until_either_reference(input, arg, TRUE, "TakeUntilEitherAndConsume")

\* the consuming variant stops at the second member of the set, mid-input
C6_Witness ==
  /\ op = "take_until_either_and_consume"
  /\ Len(arg) = 2
  /\ res.tag = "Done"
  /\ Len(res.o) = 1
  /\ Len(res.i) = 1
  /\ input[2] = arg[2]
  /\ input[2] # arg[1]

\* C7: take(n)(I) is Incomplete(Size(n)) exactly when len(I) < n, and
\* Done(I[n..], I[0..n]) otherwise; it is never Error.
C7_Take ==
  op = "take" =>
    /\ res.tag = "Incomplete" <=> Len(input) < arg
    /\ res.tag = "Incomplete" => res = Incomplete(Size(arg))
    /\ res.tag # "Incomplete" => res = Done(Slice(input, arg, Len(input)), Slice(input, 0, arg))
    /\ res.tag # "Error"

\* the boundary len(I) = n
C7_Witness ==
  /\ op = "take"
  /\ arg >= 1
  /\ Len(input) = arg
  /\ res = Done(<<>>, input)

\* C8: a Done(remaining, output) of any primitive splits the input:
\* output ++ remaining = I, or output ++ delimiter ++ remaining = I for the
\* two consuming delimiter variants.
C8_DoneSplitsInput ==
  (op # "none" /\ res.tag = "Done") =>
    CASE op = "take_until_and_consume" -> res.o \o arg \o res.i = input
      [] op = "take_until_either_and_consume" ->
           \E b \in Range(arg) : res.o \o <<b>> \o res.i = input
      [] OTHER -> res.o \o res.i = input

\* a consumed delimiter with bytes on both sides of it
C8_Witness ==
  /\ op = "take_until_and_consume"
  /\ Len(arg) >= 1
  /\ res.tag = "Done"
  /\ Len(res.o) >= 1
  /\ Len(res.i) >= 1

\* C9: exactly one of is_done, is_err, is_incomplete holds of a result, the
\* one of its variant; remaining_input and output give the fields of a Done and
\* None otherwise; applying them leaves the result as the primitive returned it.
C9_Accessors ==
  op # "none" =>
    /\ is_done(res) <=> res.tag = "Done"
    /\ is_err(res) <=> res.tag = "Error"
    /\ is_incomplete(res) <=> res.tag = "Incomplete"
    /\ Cardinality({p \in {"d", "e", "i"} :
                      \/ p = "d" /\ is_done(res)
                      \/ p = "e" /\ is_err(res)
                      \/ p = "i" /\ is_incomplete(res)}) = 1
    /\ remaining_input(res) = IF res.tag = "Done" THEN Some(res.i) ELSE None
    /\ output(res) = IF res.tag = "Done" THEN Some(res.o) ELSE None
    /\ obs.fn = "is_done" => obs.val = (res.tag = "Done")
    /\ obs.fn = "is_err" => obs.val = (res.tag = "Error")
    /\ obs.fn = "is_incomplete" => obs.val = (res.tag = "Incomplete")
    /\ obs.fn = "remaining_input" =>
         obs.val = IF res.tag = "Done" THEN Some(res.i) ELSE None
    /\ obs.fn = "output" =>
         obs.val = IF res.tag = "Done" THEN Some(res.o) ELSE None
    /\ obs.fn # "none" => res = Apply(op, arg, input)

\* is_err was asked of an Incomplete result
C9_Witness ==
  /\ obs.fn = "is_err"
  /\ res.tag = "Incomplete"
  /\ obs.val = FALSE

\* C10: for a tag or take parser re-invoked on a buffer that grows by
\* appending, every Incomplete(Size(m)) is answered on a buffer shorter than m,
\* none once the buffer has m bytes, and a Done or Error answer is repeated by
\* every later invocation (Done with the same output and the remainder
\* extended by the appended bytes, Error with the same kind).
C10_DecisionStable ==
  [][/\ res'.tag = "Incomplete" => Len(input') < res'.n.size
     /\ (res.tag = "Incomplete" /\ Len(input') >= res.n.size) => res'.tag # "Incomplete"
     /\ res.tag = "Done" =>
          res' = Done(res.i \o Slice(input', Len(input), Len(input')), res.o)
     /\ res.tag = "Error" =>
          /\ res'.tag = "Error"
          /\ res'.e.kind = res.e.kind]_vars

\* a Done answer repeated after the buffer grew past the first decision
C10_Witness ==
  /\ prev.tag = "Done"
  /\ res.tag = "Done"
  /\ Len(res.i) > Len(prev.i)
  /\ Len(res.o) >= 1
====
